---- MODULE Spec2Model ----
(***************************************************************************)
(* abistr: ABI-stable, NUL-terminated string views and buffers.            *)
(*                                                                         *)
(* Four state machines share this module:                                  *)
(*   Spec     a CStrBuf<[Unit; N]> and the operations that mutate it       *)
(*            (src/abistr/src/buffers.rs)                                  *)
(*   SpecPtr  CStrPtr / CStrNonNull views over caller memory               *)
(*            (src/abistr/src/pointers.rs)                                 *)
(*   SpecDec  the ToChars decoders and the to_string_lossy loop            *)
(*            (src/abistr/src/encoding.rs)                                 *)
(*   SpecConv the conversions: text to units and back, from_units, the     *)
(*            casts between encodings, Option<CStrNonNull>, EString0       *)
(* Slices are sequences; Rust's 0-based index i is TLA+ index i+1.         *)
(***************************************************************************)
EXTENDS Integers, Sequences, FiniteSets, TLC

VARIABLES
    buffer,     \* CStrBuf::buffer, the inline array of N units
    last,       \* the last buffer operation: its name, argument, the buffer before it, its result
    view,       \* SpecPtr: the last view operation and the view it produced
    dec,        \* SpecDec: the decoding loop's state
    conv        \* SpecConv: the last conversion: its name, its input and its result

vars == <<buffer, last, view, dec, conv>>

\* ------------------------------------------------------------------ bounds

\* Largest buffer capacity N explored.
MaxCap == 3

\* private::Unit::NUL, the terminator of every width.
NUL == 0

\* The unit values buffers and data are drawn from: NUL and one other value.
Unit == {NUL, 1}

\* Arguments are up to one unit longer than the largest buffer.
MaxData == MaxCap + 1

\* All sequences over S of length at most n.
SeqsUpTo(S, n) == UNION {[1..k -> S] : k \in 0..n}

Data == SeqsUpTo(Unit, MaxData)

Min(a, b) == IF a <= b THEN a ELSE b

\* ------------------------------------------------------------ slice helpers

\* iter().position(|ch| ch == NUL): the 0-based index of the first NUL, or -1 for None.
Position(s) ==
    IF \E i \in 1..Len(s) : s[i] = NUL
    THEN (CHOOSE i \in 1..Len(s) : s[i] = NUL /\ \A j \in 1..(i-1) : s[j] # NUL) - 1
    ELSE -1

\* dst[..n].copy_from_slice(&src[..n]) for n <= Len(dst), n <= Len(src).
CopyPrefix(dst, src, n) == [i \in 1..Len(dst) |-> IF i <= n THEN src[i] ELSE dst[i]]

\* dst[i] = v for a 0-based i < Len(dst).
SetAt(dst, i, v) == [dst EXCEPT ![i + 1] = v]

\* strlen(str) for str = the address of cells[off+1]: the number of units before the
\* first NUL at or after it. With no NUL left in the allocation the loop reads past
\* its end (undefined behaviour): -1 stands for that.
strlen(cells, off) ==
    IF \E n \in 0..(Len(cells) - off - 1) : cells[off + n + 1] = NUL
    THEN CHOOSE n \in 0..(Len(cells) - off - 1) :
            /\ cells[off + n + 1] = NUL
            /\ \A m \in 0..(n - 1) : cells[off + m + 1] # NUL
    ELSE -1

\* core::slice::from_raw_parts(start, len) for start = the address of cells[off+1].
from_raw_parts(cells, off, len) == SubSeq(cells, off + 1, off + len)

\* --------------------------------------------------------------- CStrBuf

\* private::Array::zeroed(): N units, all zero.
zeroed(n) == [i \in 1..n |-> 0]

\* CStrBuf::buffer()
buffer_of(buf) == buf

\* CStrBuf::is_empty(): the first unit, if any, is NUL.
is_empty(buf) == Len(buf) >= 1 /\ buf[1] = NUL

\* CStrBuf::to_units(): the units before the first NUL, or the whole buffer.
to_units(buf) ==
    IF Position(buf) >= 0 THEN SubSeq(buf, 1, Position(buf)) ELSE buf

\* Mutant of to_units_with_nul: &buffer[..nul] in place of &buffer[..=nul].
to_units_with_nul_exclusive(buf) ==
    IF Position(buf) >= 0
    THEN [ok |-> TRUE,  units |-> SubSeq(buf, 1, Position(buf))]
    ELSE [ok |-> FALSE, units |-> <<>>]

\* CStrBuf::to_units_with_nul(): Ok(units through the first NUL) or Err(NotNulTerminatedError).
to_units_with_nul(buf) ==
    IF Position(buf) >= 0
    THEN [ok |-> TRUE,  units |-> SubSeq(buf, 1, Position(buf) + 1)]
    ELSE [ok |-> FALSE, units |-> <<>>]

\* CStrBuf::validate(): to_units_with_nul().map(|_| ()); TRUE stands for Ok(()).
validate(buf) == to_units_with_nul(buf).ok

\* Mutant of nul_truncate: first_mut() in place of last_mut().
nul_truncate_first(dst) ==
    IF Len(dst) = 0
    THEN [buf |-> dst, ret |-> "Panic"]
    ELSE [buf |-> SetAt(dst, 0, NUL), ret |-> "View"]

\* CStrBuf::nul_truncate(): *buffer.last_mut().unwrap() = NUL; panics on an empty array.
nul_truncate(dst) ==
    IF Len(dst) = 0
    THEN [buf |-> dst, ret |-> "Panic"]
    ELSE [buf |-> SetAt(dst, Len(dst) - 1, NUL), ret |-> "View"]

\* Mutant of set_truncate: the terminator is written only when it fits after the data.
set_truncate_unterminated(dst, src) ==
    IF Len(dst) = 0
    THEN [buf |-> dst, ret |-> "Panic"]
    ELSE LET n == Min(Len(dst), Len(src))
             copied == CopyPrefix(dst, src, n)
         IN  [buf |-> IF n < Len(dst) THEN SetAt(copied, n, NUL) ELSE copied,
              ret |-> IF Len(src) >= Len(dst) THEN "Err" ELSE "Ok"]

\* Mutant of set_truncate: src.len() > dst.len() in place of >=.
set_truncate_late_error(dst, src) ==
    IF Len(dst) = 0
    THEN [buf |-> dst, ret |-> "Panic"]
    ELSE LET n == Min(Len(dst) - 1, Len(src))
         IN  [buf |-> SetAt(CopyPrefix(dst, src, n), n, NUL),
              ret |-> IF Len(src) > Len(dst) THEN "Err" ELSE "Ok"]

\* CStrBuf::set_truncate(data). dst.len()-1 overflows on an empty array: a panic in a
\* debug build; wrapped, n = src.len() and dst[..n] or dst[n] is out of bounds: a panic too.
set_truncate(dst, src) ==
    IF Len(dst) = 0
    THEN [buf |-> dst, ret |-> "Panic"]
    ELSE LET n == Min(Len(dst) - 1, Len(src))
         IN  [buf |-> SetAt(CopyPrefix(dst, src, n), n, NUL),
              ret |-> IF Len(src) >= Len(dst) THEN "Err" ELSE "Ok"]

\* CStrBuf::set_truncate_without_nul(data) (unsafe).
set_truncate_without_nul(dst, src) ==
    LET n == Min(Len(dst), Len(src))
        copied == CopyPrefix(dst, src, n)
    IN  [buf |-> IF n < Len(dst) THEN SetAt(copied, n, NUL) ELSE copied,
         ret |-> IF Len(src) > Len(dst) THEN "Err" ELSE "Ok"]

\* Mutant of try_set: the length check moved after the copy, as in set_truncate.
try_set_copy_first(dst, src) ==
    IF Len(dst) = 0
    THEN [buf |-> dst, ret |-> "Err"]
    ELSE LET n == Min(Len(dst) - 1, Len(src))
         IN  [buf |-> SetAt(CopyPrefix(dst, src, n), n, NUL),
              ret |-> IF Len(src) >= Len(dst) THEN "Err" ELSE "Ok"]

\* The mutant of C20: try_set panics on a buffer of capacity 0.
try_set_panic_on_empty(dst, src) ==
    IF Len(dst) = 0 THEN [buf |-> dst, ret |-> "Panic"]
    ELSE IF Len(src) >= Len(dst)
    THEN [buf |-> dst, ret |-> "Err"]
    ELSE [buf |-> SetAt(CopyPrefix(dst, src, Len(src)), Len(src), NUL), ret |-> "Ok"]

\* CStrBuf::try_set(data).
try_set(dst, src) ==
    IF Len(src) >= Len(dst)
    THEN [buf |-> dst, ret |-> "Err"]
    ELSE [buf |-> SetAt(CopyPrefix(dst, src, Len(src)), Len(src), NUL), ret |-> "Ok"]

\* The mutant of C23: data as long as the buffer is refused, as by try_set.
try_set_without_nul_refuses_full(dst, src) ==
    IF Len(src) >= Len(dst)
    THEN [buf |-> dst, ret |-> "Err"]
    ELSE [buf |-> SetAt(CopyPrefix(dst, src, Len(src)), Len(src), NUL), ret |-> "Ok"]

\* CStrBuf::try_set_without_nul(data) (unsafe).
try_set_without_nul(dst, src) ==
    IF Len(src) > Len(dst)
    THEN [buf |-> dst, ret |-> "Err"]
    ELSE LET copied == CopyPrefix(dst, src, Len(src))
         IN  [buf |-> IF Len(src) < Len(dst) THEN SetAt(copied, Len(src), NUL) ELSE copied,
              ret |-> "Ok"]

\* The record kept of one call.
Call(op, data, pre, ret) == [op |-> op, data |-> data, pre |-> pre, ret |-> ret]

NoView == [op |-> "none"]
NoDec  == [enc |-> "none"]
NoConv == [op |-> "none"]

\* impl Default for CStrBuf: a zeroed array, of any capacity.
Init ==
    /\ \E n \in 0..MaxCap : buffer = zeroed(n)
    /\ last = Call("default", <<>>, <<>>, "Ok")
    /\ view = NoView
    /\ dec = NoDec
    /\ conv = NoConv

Apply(op, data, r) ==
    /\ last' = Call(op, data, buffer, r.ret)
    /\ buffer' = r.buf
    /\ UNCHANGED <<view, dec, conv>>

SetTruncate == \E data \in Data : Apply("set_truncate", data, set_truncate(buffer, data))

TrySet == \E data \in Data : Apply("try_set", data, try_set(buffer, data))

NulTruncate == Apply("nul_truncate", <<>>, nul_truncate(buffer))

SetTruncateWithoutNul ==
    \E data \in Data :
        Apply("set_truncate_without_nul", data, set_truncate_without_nul(buffer, data))

TrySetWithoutNul ==
    \E data \in Data :
        Apply("try_set_without_nul", data, try_set_without_nul(buffer, data))

\* unsafe buffer_mut(), or foreign code filling the array the struct embeds: any content.
BufferMut ==
    \E content \in [1..Len(buffer) -> Unit] :
        Apply("buffer_mut", <<>>, [buf |-> content, ret |-> "Ok"])

Next ==
    \/ SetTruncate
    \/ TrySet
    \/ NulTruncate
    \/ SetTruncateWithoutNul
    \/ TrySetWithoutNul
    \/ BufferMut

Spec == Init /\ [][Next]_vars

\* The buffer under its safe mutating operations only: no unsafe operation and
\* no foreign code writes to it.
SpecSafe == Init /\ [][SetTruncate \/ TrySet \/ NulTruncate]_vars

\* ------------------------------------------------------------- encodings
\* A char is its scalar value. next_char(units) is modelled by the record
\* [ok, ch, rest]: Ok(ch) or Err(()) (ch = -1), and the slice left in *units.

\* Longest unit sequence decoded.
MaxLen == 4

\* char::REPLACEMENT_CHARACTER, U+FFFD.
REPLACEMENT_CHARACTER == 65533

RECURSIVE BitAnd(_, _)
\* a & b
BitAnd(a, b) ==
    IF a = 0 \/ b = 0 THEN 0
    ELSE (a % 2) * (b % 2) + 2 * BitAnd(a \div 2, b \div 2)

RECURSIVE BitOr(_, _)
\* a | b
BitOr(a, b) ==
    IF a = 0 THEN b
    ELSE IF b = 0 THEN a
    ELSE (IF a % 2 = 1 \/ b % 2 = 1 THEN 1 ELSE 0) + 2 * BitOr(a \div 2, b \div 2)

\* a << k on u16: the bits shifted out are dropped (k < 16, so no overflow check fires).
Shl16(a, k) == (a * (2 ^ k)) % 65536

\* char::from_u32(v).is_some(), char::try_from(v).is_ok(), and bytemuck's
\* <char as CheckedBitPattern>::is_valid_bit_pattern(&v): v is a Unicode scalar value.
IsScalar(v) == (0 <= v /\ v < 55296) \/ (57344 <= v /\ v <= 1114111)

Ok(ch, rest) == [ok |-> TRUE, ch |-> ch, rest |-> rest]
Err(rest)    == [ok |-> FALSE, ch |-> -1, rest |-> rest]

\* char::from_u32(v).ok_or(()) with *units = rest.
FromU32(v, rest) == IF IsScalar(v) THEN Ok(v, rest) ELSE Err(rest)

Tail2(s) == SubSeq(s, 3, Len(s))

IsCont(b) == 128 <= b /\ b <= 191

\* One step of core::str's UTF-8 decoder (Utf8Chunks / run_utf8_validation) on a
\* non-empty slice: [ok, ch, n]. Ok: the first n bytes are the well-formed encoding
\* of ch. Not ok: n is the length of the ill-formed subpart that from_utf8_lossy
\* replaces by one U+FFFD (the lead and the continuation bytes accepted before the
\* byte that broke the sequence).
Utf8Step(b) ==
    LET b0 == b[1]
        at(i) == IF i <= Len(b) THEN b[i] ELSE 0
        bad(n) == [ok |-> FALSE, ch |-> -1, n |-> n]
    IN
    IF b0 < 128 THEN [ok |-> TRUE, ch |-> b0, n |-> 1]
    ELSE IF 194 <= b0 /\ b0 <= 223 THEN
        IF ~IsCont(at(2)) THEN bad(1)
        ELSE [ok |-> TRUE, ch |-> (b0 - 192) * 64 + (at(2) - 128), n |-> 2]
    ELSE IF 224 <= b0 /\ b0 <= 239 THEN
        LET second == \/ (b0 = 224 /\ 160 <= at(2) /\ at(2) <= 191)
                      \/ (225 <= b0 /\ b0 <= 236 /\ IsCont(at(2)))
                      \/ (b0 = 237 /\ 128 <= at(2) /\ at(2) <= 159)
                      \/ (238 <= b0 /\ IsCont(at(2)))
        IN  IF ~second THEN bad(1)
            ELSE IF ~IsCont(at(3)) THEN bad(2)
            ELSE [ok |-> TRUE,
                  ch |-> (b0 - 224) * 4096 + (at(2) - 128) * 64 + (at(3) - 128),
                  n  |-> 3]
    ELSE IF 240 <= b0 /\ b0 <= 244 THEN
        LET second == \/ (b0 = 240 /\ 144 <= at(2) /\ at(2) <= 191)
                      \/ (241 <= b0 /\ b0 <= 243 /\ IsCont(at(2)))
                      \/ (b0 = 244 /\ 128 <= at(2) /\ at(2) <= 143)
        IN  IF ~second THEN bad(1)
            ELSE IF ~IsCont(at(3)) THEN bad(2)
            ELSE IF ~IsCont(at(4)) THEN bad(3)
            ELSE [ok |-> TRUE,
                  ch |-> (b0 - 240) * 262144 + (at(2) - 128) * 4096
                         + (at(3) - 128) * 64 + (at(4) - 128),
                  n  |-> 4]
    ELSE bad(1)

RECURSIVE from_utf8(_)
\* core::str::from_utf8(bytes) and the chars() of the &str it returns: [ok, chars].
from_utf8(b) ==
    IF b = <<>> THEN [ok |-> TRUE, chars |-> <<>>]
    ELSE LET st == Utf8Step(b) IN
         IF ~st.ok THEN [ok |-> FALSE, chars |-> <<>>]
         ELSE LET r == from_utf8(SubSeq(b, st.n + 1, Len(b))) IN
              IF r.ok THEN [ok |-> TRUE, chars |-> <<st.ch>> \o r.chars]
              ELSE [ok |-> FALSE, chars |-> <<>>]

RECURSIVE from_utf8_lossy(_)
\* alloc::string::String::from_utf8_lossy(bytes): its chars.
from_utf8_lossy(b) ==
    IF b = <<>> THEN <<>>
    ELSE LET st == Utf8Step(b) IN
         <<IF st.ok THEN st.ch ELSE REPLACEMENT_CHARACTER>>
            \o from_utf8_lossy(SubSeq(b, st.n + 1, Len(b)))

RECURSIVE from_utf16_lossy(_)
\* alloc::string::String::from_utf16_lossy(units): char::decode_utf16 with every
\* unpaired surrogate replaced by U+FFFD; the unit after an unpaired high surrogate
\* is decoded again.
from_utf16_lossy(u) ==
    IF u = <<>> THEN <<>>
    ELSE LET u0 == u[1] IN
         IF u0 < 55296 \/ u0 > 57343 THEN <<u0>> \o from_utf16_lossy(Tail(u))
         ELSE IF u0 >= 56320 THEN <<REPLACEMENT_CHARACTER>> \o from_utf16_lossy(Tail(u))
         ELSE IF Len(u) >= 2 /\ 56320 <= u[2] /\ u[2] <= 57343
              THEN <<65536 + (u0 - 55296) * 1024 + (u[2] - 56320)>>
                      \o from_utf16_lossy(Tail2(u))
              ELSE <<REPLACEMENT_CHARACTER>> \o from_utf16_lossy(Tail(u))

\* --------------------------------------------------------------- ToChars
CP437_low ==
    <<
       0, 9786, 9787, 9829, 9830, 9827, 9824, 8226,
       9688, 9675, 9689, 9794, 9792, 9834, 9835, 9788,
       9658, 9668, 8597, 8252, 182, 167, 9644, 8616,
       8593, 8595, 8594, 8592, 8735, 8596, 9650, 9660
    >>

CP437_high ==
    <<
       199, 252, 233, 226, 228, 224, 229, 231,
       234, 235, 232, 239, 238, 236, 196, 197,
       201, 230, 198, 244, 246, 242, 251, 249,
       255, 214, 220, 162, 163, 165, 8359, 402,
       225, 237, 243, 250, 241, 209, 170, 186,
       191, 8976, 172, 189, 188, 161, 171, 187,
       9617, 9618, 9619, 9474, 9508, 9569, 9570, 9558,
       9557, 9571, 9553, 9559, 9565, 9564, 9563, 9488,
       9492, 9524, 9516, 9500, 9472, 9532, 9566, 9567,
       9562, 9556, 9577, 9574, 9568, 9552, 9580, 9575,
       9576, 9572, 9573, 9561, 9560, 9554, 9555, 9579,
       9578, 9496, 9484, 9608, 9604, 9612, 9616, 9600,
       945, 223, 915, 960, 931, 963, 181, 964,
       934, 920, 937, 948, 8734, 966, 949, 8745,
       8801, 177, 8805, 8804, 8992, 8993, 247, 8776,
       176, 8729, 183, 8730, 8319, 178, 9632, 160
    >>

\* <CP437 as FixedToCharInfalliable>::to_char
CP437_to_char(unit) ==
    IF unit < 32 THEN CP437_low[unit + 1]
    ELSE IF unit < 127 THEN unit
    ELSE IF unit = 127 THEN 8962
    ELSE CP437_high[unit - 127]

\* take_first(slice): [some, first, rest], rest being *slice afterwards.
take_first(slice) ==
    IF slice = <<>> THEN [some |-> FALSE, first |-> -1, rest |-> slice]
    ELSE [some |-> TRUE, first |-> slice[1], rest |-> Tail(slice)]

\* impl<T: FixedToCharInfalliable> ToChars for T, at T = CP437.
CP437_next_char(units) ==
    IF units = <<>> THEN Err(units)
    ELSE Ok(CP437_to_char(units[1]), Tail(units))

\* The length the lead declares by its leading bits (0 for a continuation byte
\* and for the 5 and 6 unit leads), as the match of Utf8::next_char reads it.
DeclaredLen(lead) ==
    IF lead <= 127 THEN 1
    ELSE IF lead <= 191 THEN 0
    ELSE IF lead <= 223 THEN 2
    ELSE IF lead <= 239 THEN 3
    ELSE IF lead <= 247 THEN 4
    ELSE 0

\* The mutant of C14: the payload bits are put together with no validation.
Utf8_next_char_unchecked(units) ==
    IF units = <<>> THEN Err(units)
    ELSE
    LET size == DeclaredLen(units[1])
        rest == SubSeq(units, size + 1, Len(units))
    IN
    IF size = 0 THEN Err(Tail(units))
    ELSE IF size > Len(units) THEN Err(<<>>)
    ELSE IF size = 1 THEN Ok(units[1], rest)
    ELSE IF size = 2 THEN Ok((units[1] % 32) * 64 + (units[2] % 64), rest)
    ELSE IF size = 3
         THEN FromU32((units[1] % 16) * 4096 + (units[2] % 64) * 64 + (units[3] % 64), rest)
    ELSE FromU32((units[1] % 8) * 262144 + (units[2] % 64) * 4096
                    + (units[3] % 64) * 64 + (units[4] % 64), rest)

\* The mutant of C15: a sequence cut short by the end of the input gives up its
\* lead only.
Utf8_next_char_short_keeps(units) ==
    IF units = <<>> THEN Err(units)
    ELSE
    LET size == DeclaredLen(units[1]) IN
    IF size = 0 \/ size > Len(units) THEN Err(Tail(units))
    ELSE LET rest == SubSeq(units, size + 1, Len(units))
             s    == from_utf8(SubSeq(units, 1, size))
         IN  IF ~s.ok THEN Err(rest) ELSE Ok(s.chars[1], rest)

\* <Utf8 as ToChars>::next_char
Utf8_next_char(units) ==
    IF units = <<>> THEN Err(units)
    ELSE
    LET lead  == units[1]
        after == Tail(units)
        size  == IF lead <= 127 THEN 1
                 ELSE IF lead <= 191 THEN 0
                 ELSE IF lead <= 223 THEN 2
                 ELSE IF lead <= 239 THEN 3
                 ELSE IF lead <= 247 THEN 4
                 ELSE 0
    IN
    IF size = 0 THEN Err(after)
    ELSE IF size > Len(units) THEN Err(<<>>)
    ELSE LET ch   == SubSeq(units, 1, size)
             rest == SubSeq(units, size + 1, Len(units))
             s    == from_utf8(ch)
         IN  IF ~s.ok THEN Err(rest)
             ELSE IF s.chars = <<>> THEN Err(rest)
             ELSE Ok(s.chars[1], rest)

\* unwrap_or(char::REPLACEMENT_CHARACTER) wrapped in Ok, *units as the strict call left it.
Lenient(r) == IF r.ok THEN r ELSE Ok(REPLACEMENT_CHARACTER, r.rest)

\* <Utf8ish as ToChars>::next_char
Utf8ish_next_char(units) == Lenient(Utf8_next_char(units))

SURROGATE_SIGNAL_MASK == 64512
SURROGATE_VALUE_MASK  == 768
SURROGATE_HIGH        == 55296
SURROGATE_LOW         == 56320

\* The mutant of C8: an unpaired surrogate is reported without being consumed.
Utf16_next_char_rewind(units) ==
    IF units = <<>> THEN Err(units)
    ELSE IF units[1] < SURROGATE_HIGH \/ units[1] > 57343 THEN Ok(units[1], Tail(units))
    ELSE Err(units)

\* The mutant of C27: the unit after an unpaired surrogate is consumed with it.
Utf16_next_char_eats_follower(units) ==
    IF units = <<>> THEN Err(units)
    ELSE IF units[1] < SURROGATE_HIGH \/ units[1] > 57343 THEN Ok(units[1], Tail(units))
    ELSE Err(IF Len(units) >= 2 THEN Tail(Tail(units)) ELSE <<>>)

\* <Utf16 as ToChars>::next_char
Utf16_next_char(units) ==
    LET t1 == take_first(units) IN
    IF ~t1.some THEN Err(units)
    ELSE
    LET first       == t1.first
        before_take == t1.rest
        t2          == take_first(before_take)
        signal      == BitAnd(first, SURROGATE_SIGNAL_MASK)
        combine(hi, lo) ==
            FromU32(BitOr(Shl16(BitAnd(hi, SURROGATE_VALUE_MASK), 10),
                          BitAnd(lo, SURROGATE_VALUE_MASK)),
                    t2.rest)
    IN
    IF signal = SURROGATE_LOW THEN
        IF ~t2.some THEN Err(t2.rest)
        ELSE IF BitAnd(t2.first, SURROGATE_SIGNAL_MASK) # SURROGATE_HIGH THEN Err(before_take)
        ELSE combine(t2.first, first)
    ELSE IF signal = SURROGATE_HIGH THEN
        IF ~t2.some THEN Err(t2.rest)
        ELSE IF BitAnd(t2.first, SURROGATE_SIGNAL_MASK) # SURROGATE_LOW THEN Err(before_take)
        ELSE combine(first, t2.first)
    ELSE FromU32(first, before_take)

\* <Utf16ish as ToChars>::next_char
Utf16ish_next_char(units) == Lenient(Utf16_next_char(units))

\* <Utf32 as ToChars>::next_char (Unit = char)
Utf32_next_char(units) ==
    LET t == take_first(units) IN
    IF ~t.some THEN Err(units) ELSE Ok(t.first, t.rest)

\* <Utf32ish as ToChars>::next_char
Utf32ish_next_char(units) ==
    LET t == take_first(units) IN
    IF ~t.some THEN Err(units) ELSE FromU32(t.first, t.rest)

\* The encodings that implement ToChars.
ToCharsEncodings == {"CP437", "Utf8", "Utf8ish", "Utf16", "Utf16ish", "Utf32", "Utf32ish"}

\* E::next_char
next_char(E, units) ==
    CASE E = "CP437"    -> CP437_next_char(units)
      [] E = "Utf8"     -> Utf8_next_char(units)
      [] E = "Utf8ish"  -> Utf8ish_next_char(units)
      [] E = "Utf16"    -> Utf16_next_char(units)
      [] E = "Utf16ish" -> Utf16ish_next_char(units)
      [] E = "Utf32"    -> Utf32_next_char(units)
      [] E = "Utf32ish" -> Utf32ish_next_char(units)

\* size_of::<E::Unit>() in bits.
UnitBits(E) ==
    IF E \in {"Unknown8", "CP437", "Utf8", "Utf8ish"} THEN 8
    ELSE IF E \in {"Unknown16", "Utf16", "Utf16ish"} THEN 16
    ELSE 32

RECURSIVE Utf8FastPath(_, _, _)
\* The u8 fast path of the provided ToChars::to_string_lossy: TRUE when the chars
\* of the &str and the chars of E::next_char agree to the end of both.
Utf8FastPath(E, chars, units) ==
    IF chars = <<>> /\ units = <<>> THEN TRUE
    ELSE IF chars # <<>> /\ units # <<>>
         THEN LET r == next_char(E, units) IN
              r.ok /\ r.ch = chars[1] /\ Utf8FastPath(E, Tail(chars), r.rest)
         ELSE FALSE

RECURSIVE LossyLoop(_, _)
\* The while loop of the provided ToChars::to_string_lossy.
LossyLoop(E, units) ==
    IF units = <<>> THEN <<>>
    ELSE LET r == next_char(E, units) IN
         <<IF r.ok THEN r.ch ELSE REPLACEMENT_CHARACTER>> \o LossyLoop(E, r.rest)

\* The provided method ToChars::to_string_lossy.
ToChars_to_string_lossy(E, units) ==
    IF UnitBits(E) = 8 /\ from_utf8(units).ok /\ Utf8FastPath(E, from_utf8(units).chars, units)
    THEN from_utf8(units).chars
    ELSE LossyLoop(E, units)

\* The mutant of C11: no override, every encoding decodes with its next_char.
to_string_lossy_by_next_char(E, units) == LossyLoop(E, units)

\* E::to_string_lossy: the chars of the text.
to_string_lossy(E, units) ==
    CASE E \in {"Utf8", "Utf8ish"}   -> from_utf8_lossy(units)
      [] E \in {"Utf16", "Utf16ish"} -> from_utf16_lossy(units)
      [] E = "Utf32"                 -> units
      [] E = "Utf32ish"              ->
            [i \in 1..Len(units) |->
                IF IsScalar(units[i]) THEN units[i] ELSE REPLACEMENT_CHARACTER]
      [] OTHER                       -> ToChars_to_string_lossy(E, units)

\* ------------------------------------------------ specification: decoding
\* dec is one decoding of `input` under encoding `enc`:
\*   units     what is left of the input,
\*   before    the slice the last next_char call was given, prev_len its length,
\*   ret, ch   what that call returned ("none" before the first call),
\*   calls     the calls made on a non-empty slice,
\*   s         the text those calls built as the loop of to_string_lossy builds it,
\*   lossy     the text to_string_lossy(input) returned, once it was called.

Units8     == {65, 128, 160, 195, 224, 237, 240, 244, 255}
CP437Units == {1, 65, 160, 195}
Units16    == {65, 55296, 56319, 56320, 57343}
Units32    == {65, 55296, 57343, 1114111, 1114112}
Chars      == {65, 65533, 1114111}

\* The unit values decoded under E.
UnitsOf(E) ==
    CASE E = "CP437"                 -> CP437Units
      [] E \in {"Utf8", "Utf8ish"}   -> Units8
      [] E \in {"Utf16", "Utf16ish"} -> Units16
      [] E = "Utf32"                 -> Chars
      [] E = "Utf32ish"              -> Units32

DecStart(E, input) ==
    [enc |-> E, input |-> input, units |-> input, before |-> <<>>, prev_len |-> 0,
     ret |-> "none", ch |-> -1, calls |-> 0, s |-> <<>>,
     lossy |-> [done |-> FALSE, text |-> <<>>]]

InitDec ==
    /\ \E E \in ToCharsEncodings : \E input \in SeqsUpTo(UnitsOf(E), MaxLen) :
            dec = DecStart(E, input)
    /\ buffer = <<>>
    /\ last = Call("default", <<>>, <<>>, "Ok")
    /\ view = NoView
    /\ conv = NoConv

\* One E::next_char(&mut units) call. On a non-empty slice it is an iteration of
\* the loop of to_string_lossy, which pushes the char or U+FFFD; a caller may also
\* call it once on the empty slice.
NextChar(E) ==
    /\ dec.enc = E
    /\ dec.units # <<>> \/ dec.ret = "none" \/ dec.prev_len > 0
    /\ LET r == next_char(E, dec.units) IN
       dec' = [dec EXCEPT
                 !.units    = r.rest,
                 !.before   = dec.units,
                 !.prev_len = Len(dec.units),
                 !.ret      = IF r.ok THEN "Ok" ELSE "Err",
                 !.ch       = r.ch,
                 !.calls    = IF dec.units # <<>> THEN @ + 1 ELSE @,
                 !.s        = IF dec.units = <<>> THEN @
                              ELSE Append(@, IF r.ok THEN r.ch ELSE REPLACEMENT_CHARACTER)]
    /\ UNCHANGED <<buffer, last, view, conv>>

CP437NextChar    == NextChar("CP437")
Utf8NextChar     == NextChar("Utf8")
Utf8ishNextChar  == NextChar("Utf8ish")
Utf16NextChar    == NextChar("Utf16")
Utf16ishNextChar == NextChar("Utf16ish")
Utf32NextChar    == NextChar("Utf32")
Utf32ishNextChar == NextChar("Utf32ish")

\* E::to_string_lossy(input)
ToStringLossy ==
    /\ dec.enc \in ToCharsEncodings
    /\ ~dec.lossy.done
    /\ dec' = [dec EXCEPT !.lossy = [done |-> TRUE, text |-> to_string_lossy(dec.enc, dec.input)]]
    /\ UNCHANGED <<buffer, last, view, conv>>

NextDec ==
    \/ CP437NextChar
    \/ Utf8NextChar
    \/ Utf8ishNextChar
    \/ Utf16NextChar
    \/ Utf16ishNextChar
    \/ Utf32NextChar
    \/ Utf32ishNextChar
    \/ ToStringLossy

SpecDec == InitDec /\ [][NextDec]_vars

\* ------------------------------------------------------------- FromUnits
\* The encodings E with a FromUnits<U> impl for the Unit U of E's width
\* (u8, u16 or u32), which is what from_units_with_nul<U: Unit> can be called with.
FromUnitsEncodings ==
    {"Unknown8", "Unknown16", "Unknown32", "CP437", "Utf8ish", "Utf16ish", "Utf32", "Utf32ish"}

\* The mutant of C16: the slice is split at its last invalid unit.
must_cast_slice_checked_partial_last(s) ==
    LET bad == {j \in 1..Len(s) : ~IsScalar(s[j])}
        i   == IF bad = {} THEN Len(s)
               ELSE (CHOOSE j \in bad : \A k \in bad : j >= k) - 1
    IN  [ok |-> SubSeq(s, 1, i), invalid |-> SubSeq(s, i + 1, Len(s))]

\* must_cast_slice_checked_partial::<u32, char>(s): (ok, invalid).
must_cast_slice_checked_partial(s) ==
    LET bad == {j \in 1..Len(s) : ~IsScalar(s[j])}
        i   == IF bad = {} THEN Len(s)
               ELSE (CHOOSE j \in bad : \A k \in bad : j <= k) - 1
    IN  [ok |-> SubSeq(s, 1, i), invalid |-> SubSeq(s, i + 1, Len(s))]

\* <E as FromUnits<U>>::from_units(units): Ok(units) or Err((valid, invalid)).
from_units(E, units) ==
    IF E = "Utf32"
    THEN LET p == must_cast_slice_checked_partial(units) IN
         IF p.invalid = <<>>
         THEN [ok |-> TRUE, units |-> p.ok, invalid |-> <<>>]
         ELSE [ok |-> FALSE, units |-> p.ok, invalid |-> p.invalid]
    ELSE [ok |-> TRUE, units |-> units, invalid |-> <<>>]

\* ---------------------------------------------------------------- views
\* A view is a pointer into the units it borrows: `cells` is that allocation and
\* `ptr` the pointer, 0 for null and k > 0 for &cells[k].
\* view.ret = "Err" means the constructor returned Err and there is no view.

\* Longest unit slice a view is made of.
MaxUnits == 3

\* Unit::EMPTY
EMPTY == <<NUL>>

NoRead == [done |-> FALSE]

View(op, kind, E, input, ret, cells, ptr) ==
    [op |-> op, kind |-> kind, enc |-> E, input |-> input, ret |-> ret,
     cells |-> cells, ptr |-> ptr, read |-> NoRead]

\* The mutant of C6: the interior NUL check is left out.
CStrPtr_from_units_with_nul_no_interior(E, input) ==
    LET r == from_units(E, input) IN
    IF ~r.ok THEN [ret |-> "Err", cells |-> <<>>, ptr |-> 0]
    ELSE IF r.units = <<>> THEN [ret |-> "Err", cells |-> <<>>, ptr |-> 0]
    ELSE IF r.units[Len(r.units)] # NUL THEN [ret |-> "Err", cells |-> <<>>, ptr |-> 0]
    ELSE [ret |-> "Ok", cells |-> r.units, ptr |-> 1]

\* CStrPtr::from_units_with_nul
CStrPtr_from_units_with_nul(E, input) ==
    LET r        == from_units(E, input)
        units    == r.units
        nul      == units[Len(units)]
        interior == SubSeq(units, 1, Len(units) - 1)
        err      == [ret |-> "Err", cells |-> <<>>, ptr |-> 0]
    IN
    IF ~r.ok THEN err
    ELSE IF units = <<>> THEN err
    ELSE IF nul # NUL THEN err
    ELSE IF \E i \in 1..Len(interior) : interior[i] = NUL THEN err
    ELSE [ret |-> "Ok", cells |-> units, ptr |-> 1]

\* CStrNonNull::from_units_with_nul
CStrNonNull_from_units_with_nul(E, input) ==
    LET r        == from_units(E, input)
        units    == r.units
        nul      == units[Len(units)]
        interior == SubSeq(units, 1, Len(units) - 1)
        err      == [ret |-> "Err", cells |-> <<>>, ptr |-> 0]
    IN
    IF ~r.ok THEN err
    ELSE IF units = <<>> THEN err
    ELSE IF nul # NUL THEN err
    ELSE IF \E i \in 1..Len(interior) : interior[i] = NUL THEN err
    ELSE [ret |-> "Ok", cells |-> units, ptr |-> 1]

\* CStrPtr::is_null
CStrPtr_is_null(v) == v.ptr = 0

\* CStrPtr::is_empty
CStrPtr_is_empty(v) == v.ptr = 0 \/ NUL = v.cells[v.ptr]

\* CStrPtr::to_units
CStrPtr_to_units(v) ==
    IF v.ptr = 0 THEN <<>>
    ELSE from_raw_parts(v.cells, v.ptr - 1, strlen(v.cells, v.ptr - 1))

\* The mutant of C7: a null view has no units at all, not even the NUL.
CStrPtr_to_units_with_nul_null_empty(v) ==
    IF v.ptr = 0 THEN <<>>
    ELSE from_raw_parts(v.cells, v.ptr - 1, strlen(v.cells, v.ptr - 1) + 1)

\* CStrPtr::to_units_with_nul
CStrPtr_to_units_with_nul(v) ==
    IF v.ptr = 0 THEN EMPTY
    ELSE from_raw_parts(v.cells, v.ptr - 1, strlen(v.cells, v.ptr - 1) + 1)

\* CStrPtr::to_string_lossy (where E: ToChars)
CStrPtr_to_string_lossy(v) == to_string_lossy(v.enc, CStrPtr_to_units(v))

\* CStrNonNull::is_empty
CStrNonNull_is_empty(v) == NUL = v.cells[v.ptr]

\* The mutant of C30: to_units keeps the NUL.
CStrNonNull_to_units_keeps_nul(v) ==
    from_raw_parts(v.cells, v.ptr - 1, strlen(v.cells, v.ptr - 1) + 1)

\* CStrNonNull::to_units
CStrNonNull_to_units(v) == from_raw_parts(v.cells, v.ptr - 1, strlen(v.cells, v.ptr - 1) + 0)

\* CStrNonNull::to_units_with_nul
CStrNonNull_to_units_with_nul(v) == from_raw_parts(v.cells, v.ptr - 1, strlen(v.cells, v.ptr - 1) + 1)

\* CStrNonNull::to_string_lossy (where E: ToChars)
CStrNonNull_to_string_lossy(v) == to_string_lossy(v.enc, CStrNonNull_to_units(v))

\* Every read of a CStrPtr; to_string_lossy exists where E: ToChars and is left
\* empty elsewhere.
CStrPtr_reads(v) ==
    [done              |-> TRUE,
     is_null           |-> CStrPtr_is_null(v),
     is_empty          |-> CStrPtr_is_empty(v),
     to_units          |-> CStrPtr_to_units(v),
     to_units_with_nul |-> CStrPtr_to_units_with_nul(v),
     to_string_lossy   |-> IF v.enc \in ToCharsEncodings
                           THEN CStrPtr_to_string_lossy(v) ELSE <<>>]

\* Every read of a CStrNonNull.
CStrNonNull_reads(v) ==
    [done              |-> TRUE,
     is_null           |-> FALSE,
     is_empty          |-> CStrNonNull_is_empty(v),
     to_units          |-> CStrNonNull_to_units(v),
     to_units_with_nul |-> CStrNonNull_to_units_with_nul(v),
     to_string_lossy   |-> IF v.enc \in ToCharsEncodings
                           THEN CStrNonNull_to_string_lossy(v) ELSE <<>>]

\* ------------------------------------------------- specification: views
Encodings == FromUnitsEncodings \cup ToCharsEncodings

\* The unit values a view is made of, per width; the last two of the u32 values
\* are not chars.
ViewUnits(E) ==
    IF UnitBits(E) = 8 THEN {NUL, 65, 255}
    ELSE IF UnitBits(E) = 16 THEN {NUL, 65, 56320}
    ELSE {NUL, 65, 55296, 1114112}

\* NUL-terminated strings of units that are valid in every encoding, which is what
\* the callers of from_ptr_unchecked owe it.
CStrings == {s \in SeqsUpTo({NUL, 65}, MaxUnits) : s # <<>> /\ s[Len(s)] = NUL}

InitPtr ==
    /\ view = NoView
    /\ buffer = <<>>
    /\ last = Call("default", <<>>, <<>>, "Ok")
    /\ dec = NoDec
    /\ conv = NoConv

Construct(v) ==
    /\ view.op = "none"
    /\ view' = v
    /\ UNCHANGED <<buffer, last, dec, conv>>

\* CStrPtr::<E>::NULL
PtrNull ==
    \E E \in Encodings :
        Construct(View("NULL", "CStrPtr", E, <<>>, "Ok", <<>>, 0))

\* CStrPtr::<E>::default()
PtrDefault ==
    \E E \in Encodings :
        Construct(View("default", "CStrPtr", E, <<>>, "Ok", EMPTY, 1))

\* CStrPtr::<E>::from_ptr_unchecked(ptr), ptr null or into a C string.
PtrFromPtrUnchecked ==
    \E E \in Encodings : \E cells \in CStrings : \E ptr \in 0..Len(cells) :
        Construct(View("from_ptr_unchecked", "CStrPtr", E, <<>>, "Ok",
                       IF ptr = 0 THEN <<>> ELSE cells, ptr))

\* CStrNonNull::<E>::from_ptr_unchecked(ptr), ptr into a C string.
NonNullFromPtrUnchecked ==
    \E E \in Encodings : \E cells \in CStrings : \E ptr \in 1..Len(cells) :
        Construct(View("from_ptr_unchecked", "CStrNonNull", E, <<>>, "Ok", cells, ptr))

\* CStrPtr::<E>::from_units_with_nul(units)
PtrFromUnitsWithNul ==
    \E E \in FromUnitsEncodings : \E units \in SeqsUpTo(ViewUnits(E), MaxUnits) :
        LET r == CStrPtr_from_units_with_nul(E, units) IN
        Construct(View("from_units_with_nul", "CStrPtr", E, units, r.ret, r.cells, r.ptr))

\* CStrNonNull::<E>::from_units_with_nul(units)
NonNullFromUnitsWithNul ==
    \E E \in FromUnitsEncodings : \E units \in SeqsUpTo(ViewUnits(E), MaxUnits) :
        LET r == CStrNonNull_from_units_with_nul(E, units) IN
        Construct(View("from_units_with_nul", "CStrNonNull", E, units, r.ret, r.cells, r.ptr))

\* is_null, is_empty, to_units, to_units_with_nul and to_string_lossy of a CStrPtr.
PtrRead ==
    /\ view.op # "none"
    /\ view.kind = "CStrPtr" /\ view.ret = "Ok" /\ ~view.read.done
    /\ view' = [view EXCEPT !.read = CStrPtr_reads(view)]
    /\ UNCHANGED <<buffer, last, dec, conv>>

\* is_empty, to_units, to_units_with_nul and to_string_lossy of a CStrNonNull.
NonNullRead ==
    /\ view.op # "none"
    /\ view.kind = "CStrNonNull" /\ view.ret = "Ok" /\ ~view.read.done
    /\ view' = [view EXCEPT !.read = CStrNonNull_reads(view)]
    /\ UNCHANGED <<buffer, last, dec, conv>>

NextPtr ==
    \/ PtrNull
    \/ PtrDefault
    \/ PtrFromPtrUnchecked
    \/ NonNullFromPtrUnchecked
    \/ PtrFromUnitsWithNul
    \/ NonNullFromUnitsWithNul
    \/ PtrRead
    \/ NonNullRead

SpecPtr == InitPtr /\ [][NextPtr]_vars

\* ------------------------------------------------ specification: conversions
\* conv is the record of one conversion call: its name, its arguments and what
\* it returned. Every call starts from conv = NoConv.

\* Longest text converted.
MaxText == 3

\* The chars texts are made of: NUL, one char of each UTF-8 length, U+FFFD, and
\* the first and the last char above U+FFFF.
TextChars == {NUL, 65, 233, 8364, 65533, 65536, 1114111}

Texts == SeqsUpTo(TextChars, MaxText)

\* char::encode_utf8
encode_utf8(c) ==
    IF c < 128 THEN <<c>>
    ELSE IF c < 2048 THEN <<192 + (c \div 64), 128 + (c % 64)>>
    ELSE IF c < 65536 THEN <<224 + (c \div 4096), 128 + ((c \div 64) % 64), 128 + (c % 64)>>
    ELSE <<240 + (c \div 262144), 128 + ((c \div 4096) % 64),
           128 + ((c \div 64) % 64), 128 + (c % 64)>>

\* char::encode_utf16
encode_utf16(c) ==
    IF c < 65536 THEN <<c>>
    ELSE <<55296 + ((c - 65536) \div 1024), 56320 + ((c - 65536) % 1024)>>

RECURSIVE Flatten(_)
\* Iterator::flatten / Vec::extend over the units of each char.
Flatten(ss) == IF ss = <<>> THEN <<>> ELSE ss[1] \o Flatten(Tail(ss))

\* str::bytes()
str_bytes(text) == Flatten([i \in 1..Len(text) |-> encode_utf8(text[i])])

\* str::encode_utf16()
str_encode_utf16(text) == Flatten([i \in 1..Len(text) |-> encode_utf16(text[i])])

\* str::chars(), and .map(u32::from) of it
str_chars(text) == text

\* The units of `text` in the encoding E, as TryIntoAsCStr<E> for &str makes them.
UnitsOfText(E, text) ==
    IF UnitBits(E) = 8 THEN str_bytes(text)
    ELSE IF UnitBits(E) = 16 THEN str_encode_utf16(text)
    ELSE str_chars(text)

Convert(c) ==
    /\ conv.op = "none"
    /\ conv' = c
    /\ UNCHANGED <<buffer, last, view, dec>>

InitConv ==
    /\ conv = NoConv
    /\ buffer = <<>>
    /\ last = Call("default", <<>>, <<>>, "Ok")
    /\ view = NoView
    /\ dec = NoDec

\* E::to_string_lossy(units) for the units of a text in a strict encoding E.
TextToStringLossy ==
    /\ conv.op = "none"
    /\ \E E \in {"Utf8", "Utf16", "Utf32"} : \E text \in Texts :
           LET units == UnitsOfText(E, text) IN
           Convert([op |-> "to_string_lossy", enc |-> E, text |-> text,
                    units |-> units, out |-> to_string_lossy(E, units)])

\* The unit values from_units is given: those of the views and, for u32, the
\* values on both sides of the two bounds of the chars.
ConvUnits(E) ==
    IF UnitBits(E) = 32 THEN Units32 \cup {NUL, 55295, 57344} ELSE ViewUnits(E)

\* <E as FromUnits<U>>::from_units(units)
FromUnits ==
    /\ conv.op = "none"
    /\ \E E \in FromUnitsEncodings : \E units \in SeqsUpTo(ConvUnits(E), MaxUnits) :
           LET r == from_units(E, units) IN
           Convert([op |-> "from_units", enc |-> E, input |-> units,
                    ok |-> r.ok, units |-> r.units, invalid |-> r.invalid])

\* The impls of FromUnitsInfalliable<U> for E, as <<E, U>>.
InfalliableImpls ==
    {<<"Unknown8", "i8">>, <<"Unknown8", "u8">>, <<"Unknown16", "u16">>,
     <<"Unknown32", "u32">>, <<"Unknown32", "char">>,
     <<"CP437", "i8">>, <<"CP437", "u8">>, <<"Utf8ish", "i8">>, <<"Utf8ish", "u8">>,
     <<"Utf16ish", "u16">>, <<"Utf32", "char">>,
     <<"Utf32ish", "u32">>, <<"Utf32ish", "char">>}

\* The values of the source type U given to from_units_infalliable.
SourceUnits(U) ==
    CASE U = "i8"   -> {-128, -1, NUL, 65}
      [] U = "u8"   -> {NUL, 65, 255}
      [] U = "u16"  -> {NUL, 65, 56320}
      [] U = "u32"  -> {NUL, 65, 55296, 1114112}
      [] U = "char" -> Chars \cup {NUL}

\* The bit pattern of a value of type U, as an unsigned integer.
Bits(U, v) == IF U = "i8" THEN v % 256 ELSE v

\* bytemuck::must_cast_slice(units) from U to a unit type of the same size: the
\* same memory read as unsigned units.
must_cast_slice(U, units) == [i \in 1..Len(units) |-> Bits(U, units[i])]

\* <E as FromUnitsInfalliable<U>>::from_units_infalliable(units)
from_units_infalliable(E, U, units) ==
    IF (U = "i8") \/ (U = "char" /\ E # "Utf32") THEN must_cast_slice(U, units) ELSE units

\* The mutant of C17: as_ptr is one unit off.
CStrNonNull_as_ptr_next(v) == v.ptr + 1

\* CStrPtr::as_ptr
CStrPtr_as_ptr(v) == v.ptr

\* CStrNonNull::as_ptr
CStrNonNull_as_ptr(v) == v.ptr

\* <CStrNonNull<E1> as AsCStr<E2>>::as_cstr: self.as_ptr().cast()
as_cstr(v) == CStrNonNull_as_ptr(v)

\* <CStrPtr<E1> / CStrNonNull<E1> as AsOptCStr<E2>>::as_opt_cstr: self.as_ptr().cast()
as_opt_cstr(v) == IF v.kind = "CStrPtr" THEN CStrPtr_as_ptr(v) ELSE CStrNonNull_as_ptr(v)

\* CStrX::<Unknown..>::assume_utf8ish / assume_utf16ish / assume_utf32ish:
\* CStrX::from_ptr_unchecked(self.as_ptr().cast())
assume_ish(v, E2) ==
    View("assume_ish", v.kind, E2, <<>>, "Ok", v.cells,
         IF v.kind = "CStrPtr" THEN CStrPtr_as_ptr(v) ELSE CStrNonNull_as_ptr(v))

\* The casts of AsCStr and AsOptCStr from one encoding to a less strict one of
\* the same width, as <<E1, E2>>.
NarrowingPairs ==
    {<<"Utf8", "Utf8ish">>, <<"Utf8", "Unknown8">>, <<"Utf8ish", "Unknown8">>,
     <<"Utf16", "Utf16ish">>, <<"Utf16", "Unknown16">>, <<"Utf16ish", "Unknown16">>,
     <<"Utf32", "Utf32ish">>, <<"Utf32", "Unknown32">>, <<"Utf32ish", "Unknown32">>}

\* The safe assume_..ish casts, as <<E1, E2>>.
AssumePairs ==
    {<<"Unknown8", "Utf8ish">>, <<"Unknown16", "Utf16ish">>, <<"Unknown32", "Utf32ish">>}

\* The C string a raw pointer is read as: the units from it to the first NUL,
\* none through a null pointer.
UnitsAt(cells, ptr) ==
    IF ptr = 0 THEN <<>> ELSE from_raw_parts(cells, ptr - 1, strlen(cells, ptr - 1))

\* The views the casts are applied to: CStrPtr, null or into a C string, and
\* CStrNonNull into a C string.
Views(E) ==
    {View("from_ptr_unchecked", "CStrPtr", E, <<>>, "Ok", <<>>, 0)}
    \cup {View("from_ptr_unchecked", kind, E, <<>>, "Ok", cells, ptr) :
            kind \in {"CStrPtr", "CStrNonNull"},
            cells \in CStrings, ptr \in 1..MaxUnits}

Cast(op, v, E2, cells, out) ==
    Convert([op |-> op, kind |-> v.kind, from |-> v.enc, to |-> E2,
             cells |-> v.cells, ptr |-> v.ptr, out |-> out,
             before |-> UnitsAt(v.cells, v.ptr), after |-> UnitsAt(cells, out)])

\* as_cstr of a CStrNonNull<E1> as a C string of E2.
AsCStr ==
    /\ conv.op = "none"
    /\ \E pair \in NarrowingPairs : \E v \in Views(pair[1]) :
           /\ v.kind = "CStrNonNull" /\ v.ptr <= Len(v.cells)
           /\ Cast("as_cstr", v, pair[2], v.cells, as_cstr(v))

\* as_opt_cstr of a CStrPtr<E1> or CStrNonNull<E1> as a C string of E2, or null.
AsOptCStr ==
    /\ conv.op = "none"
    /\ \E pair \in NarrowingPairs : \E v \in Views(pair[1]) :
           /\ v.ptr <= Len(v.cells)
           /\ Cast("as_opt_cstr", v, pair[2], v.cells, as_opt_cstr(v))

\* assume_utf8ish, assume_utf16ish, assume_utf32ish of a CStrPtr or CStrNonNull.
AssumeIsh ==
    /\ conv.op = "none"
    /\ \E pair \in AssumePairs : \E v \in Views(pair[1]) :
           /\ v.ptr <= Len(v.cells)
           /\ LET w == assume_ish(v, pair[2]) IN
              Cast("assume_ish", v, w.enc, w.cells, w.ptr)

\* <E as FromUnitsInfalliable<U>>::from_units_infalliable(units)
FromUnitsInfalliable ==
    /\ conv.op = "none"
    /\ \E impl \in InfalliableImpls : \E units \in SeqsUpTo(SourceUnits(impl[2]), MaxUnits) :
           Convert([op |-> "from_units_infalliable", enc |-> impl[1], source |-> impl[2],
                    input |-> units, units |-> from_units_infalliable(impl[1], impl[2], units)])

\* Option<CStrNonNull<E>>: None, or Some of a non-null pointer.
None == [some |-> FALSE]
Some(p) == [some |-> TRUE, ptr |-> p]

\* The memory of an Option<CStrNonNull<E>>: CStrNonNull is a transparent
\* NonNull, whose null niche is None, so the word is the pointer or null.
Option_repr(o) == IF o.some THEN o.ptr ELSE 0

\* transmute of a raw pointer, a field of a C struct, to Option<CStrNonNull<E>>:
\* the option whose memory is that word.
Option_from_raw(raw) ==
    CHOOSE o \in {None} \cup {Some(q) : q \in 1..(MaxUnits + 1)} : Option_repr(o) = raw

\* The mutant of C18: None becomes a view of the first unit.
CStrPtr_from_option_dangling(E, cells, o) ==
    View("from", "CStrPtr", E, <<>>, "Ok", cells, IF o.some THEN o.ptr ELSE 1)

\* <CStrPtr<E> as From<Option<CStrNonNull<E>>>>::from: transmute(p)
CStrPtr_from_option(E, cells, o) ==
    View("from", "CStrPtr", E, <<>>, "Ok", cells, Option_repr(o))

\* <CStrPtr<E> as From<CStrNonNull<E>>>::from: transmute(p)
CStrPtr_from_nonnull(v) ==
    View("from", "CStrPtr", v.enc, <<>>, "Ok", v.cells, CStrNonNull_as_ptr(v))

\* A raw pointer of a C struct read as Option<CStrNonNull<E>>.
ReadOption ==
    /\ conv.op = "none"
    /\ \E E \in Encodings : \E cells \in CStrings : \E raw \in 0..Len(cells) :
           Convert([op |-> "read_option", enc |-> E, cells |-> cells, raw |-> raw,
                    opt |-> Option_from_raw(raw)])

\* CStrPtr::from(Option<CStrNonNull<E>>) and CStrPtr::from(CStrNonNull<E>).
IntoCStrPtr ==
    /\ conv.op = "none"
    /\ \E E \in Encodings : \E cells \in CStrings :
           \/ \E o \in {None} \cup {Some(q) : q \in 1..Len(cells)} :
                LET v == CStrPtr_from_option(E, cells, o) IN
                Convert([op |-> "from_option", enc |-> E, cells |-> cells, opt |-> o,
                         ptr |-> CStrPtr_as_ptr(v), is_null |-> CStrPtr_is_null(v)])
           \/ \E q \in 1..Len(cells) :
                LET v == CStrPtr_from_nonnull(
                           View("from_ptr_unchecked", "CStrNonNull", E, <<>>, "Ok", cells, q)) IN
                Convert([op |-> "from_nonnull", enc |-> E, cells |-> cells, opt |-> Some(q),
                         ptr |-> CStrPtr_as_ptr(v), is_null |-> CStrPtr_is_null(v)])

\* InteriorNulError::check: Err when any unit is NUL.
InteriorNulError_check(str) ==
    IF \E i \in 1..Len(str) : str[i] = NUL THEN "Err" ELSE "Ok"

\* EString0::from_vec_no_nul: check(&str)?; str.push(NUL); Ok(Self(str))
EString0_from_vec_no_nul(str) ==
    IF InteriorNulError_check(str) = "Err" THEN [ok |-> FALSE, units |-> <<>>]
    ELSE [ok |-> TRUE, units |-> Append(str, NUL)]

\* The mutant of C19: from_iter without the check.
EString0_from_iter_unchecked(str) == [ok |-> TRUE, units |-> str \o <<NUL>>]

\* EString0::from_iter: v.extend(str); check(&v)?; v.extend(Some(NUL)); Ok(Self(v))
EString0_from_iter(str) ==
    LET v == <<>> \o str IN
    IF InteriorNulError_check(v) = "Err" THEN [ok |-> FALSE, units |-> <<>>]
    ELSE [ok |-> TRUE, units |-> v \o <<NUL>>]

\* The encodings TryIntoAsCStr is implemented for by &str, &String and String.
TryIntoEncodings ==
    {"Utf8", "Utf8ish", "Unknown8", "Utf16", "Utf16ish", "Unknown16",
     "Utf32", "Utf32ish", "Unknown32"}

\* <T as TryIntoAsCStr<E>>::try_into for T of &str, &String, String: an owned
\* String gives its bytes away to from_vec_no_nul, everything else is iterated.
try_into(T, E, text) ==
    IF T = "String" /\ UnitBits(E) = 8 THEN EString0_from_vec_no_nul(str_bytes(text))
    ELSE IF UnitBits(E) = 8 THEN EString0_from_iter(str_bytes(text))
    ELSE IF UnitBits(E) = 16 THEN EString0_from_iter(str_encode_utf16(text))
    ELSE EString0_from_iter(str_chars(text))

TryInto ==
    /\ conv.op = "none"
    /\ \E T \in {"&str", "&String", "String"} : \E E \in TryIntoEncodings : \E text \in Texts :
           LET r == try_into(T, E, text) IN
           Convert([op |-> "try_into", type |-> T, enc |-> E, text |-> text,
                    units |-> UnitsOfText(E, text), ok |-> r.ok, owned |-> r.units])

\* The mutant of C21: the array is filled with ones.
Array_zeroed_ones(bits, n) == [i \in 1..n |-> 1]

\* <[U; N] as Array>::zeroed for units of the given width: std::mem::zeroed()
\* makes every byte of the array 0, and a unit is read from its bytes.
Array_zeroed(bits, n) ==
    LET k == bits \div 8
        bytes == [j \in 1..(n * k) |-> 0]
        byte(i, j) == IF j <= k THEN bytes[k * (i - 1) + j] ELSE 0
    IN  [i \in 1..n |-> byte(i, 1) + 256 * byte(i, 2)
                        + 65536 * byte(i, 3) + 16777216 * byte(i, 4)]

\* CStrBuf::<[U; N]>::default() for U of u8, u16, u32, and what it reads as.
Default ==
    /\ conv.op = "none"
    /\ \E bits \in {8, 16, 32} : \E n \in 0..MaxCap :
           LET b == Array_zeroed(bits, n) IN
           Convert([op |-> "default", bits |-> bits, cap |-> n, buffer |-> buffer_of(b),
                    is_empty |-> is_empty(b), units |-> to_units(b),
                    valid |-> validate(b)])

\* The mutant of C24: Option<CStrNonNull> carries a tag beside the pointer.
layout_tagged_option(target, ty) ==
    IF ty.kind = "Option<CStrNonNull>"
    THEN [size |-> 2 * (target \div 8), align |-> target \div 8]
    ELSE IF ty.kind \in {"array", "CStrBuf"}
    THEN [size |-> ty.n * (ty.bits \div 8), align |-> ty.bits \div 8]
    ELSE [size |-> target \div 8, align |-> target \div 8]

\* size_of and align_of of a type, in bytes, on a target with pointers of
\* `target` bits. A repr(transparent) struct has the layout of its one field
\* beside the zero-sized PhantomData; Option<T> is T when T has a niche (NonNull does,
\* a raw pointer does not) and T with a tag otherwise.
layout(target, ty) ==
    LET unit      == [size |-> ty.bits \div 8, align |-> ty.bits \div 8, niche |-> FALSE]
        raw       == [size |-> target \div 8, align |-> target \div 8, niche |-> FALSE]
        nonnull   == [raw EXCEPT !.niche = TRUE]
        phantom   == [size |-> 0, align |-> 1, niche |-> FALSE]
        array     == [size |-> ty.n * unit.size, align |-> unit.align, niche |-> FALSE]
        transparent(field, zero_sized) == field
        option(l) ==
            IF l.niche THEN [l EXCEPT !.niche = FALSE]
            ELSE [size |-> l.size + l.align, align |-> l.align, niche |-> FALSE]
        l == CASE ty.kind = "*const"   -> raw
               [] ty.kind = "NonNull"  -> nonnull
               [] ty.kind = "array"    -> array
               [] ty.kind = "CStrPtr"  -> transparent(raw, {phantom})
               [] ty.kind = "CStrNonNull" -> transparent(nonnull, {phantom})
               [] ty.kind = "Option<CStrNonNull>" -> option(transparent(nonnull, {phantom}))
               [] ty.kind = "CStrBuf"  -> transparent(array, {})
    IN  [size |-> l.size, align |-> l.align]

\* assert_abi_compatible!(left, right) of the abi_layout tests: the layouts of a
\* type of this crate and of the plain type it stands for.
AbiLayout ==
    /\ conv.op = "none"
    /\ \E target \in {32, 64} : \E bits \in {8, 16, 32} : \E n \in 0..MaxCap :
       \E pair \in {<<"CStrPtr", "*const">>, <<"Option<CStrNonNull>", "*const">>,
                    <<"CStrNonNull", "NonNull">>, <<"CStrBuf", "array">>} :
           Convert([op |-> "abi_layout", target |-> target, bits |-> bits, n |-> n,
                    left |-> pair[1], right |-> pair[2],
                    left_layout |-> layout(target, [kind |-> pair[1], bits |-> bits, n |-> n]),
                    right_layout |-> layout(target, [kind |-> pair[2], bits |-> bits, n |-> n])])

NextConv ==
    \/ TextToStringLossy
    \/ FromUnits
    \/ AsCStr
    \/ AsOptCStr
    \/ AssumeIsh
    \/ FromUnitsInfalliable
    \/ ReadOption
    \/ IntoCStrPtr
    \/ TryInto
    \/ Default
    \/ AbiLayout

SpecConv == InitConv /\ [][NextConv]_vars

\* ---------------------------------------------------------- literal macros
\*
\* abistr-macros: the literal given to unknown8!, utf8!, utf16ish!, ... is the
\* text of a Rust literal token, a sequence of chars; parse_str turns it into
\* the unit array the macro emits, or into a compile error.

\* A body is made of at most MaxLit pieces.
MaxLit == 3

\* The pieces the bodies of the literals are made of: a NUL char, '0', 'F', a
\* backslash, '}', and the starts of the escapes \0, \x, \u and \u{.
LitPieces ==
    {<<NUL>>, <<48>>, <<70>>, <<92>>, <<125>>,
     <<92, 48>>, <<92, 120>>, <<92, 117>>, <<92, 117, 123>>}

Bodies == {Flatten(pieces) : pieces \in SeqsUpTo(LitPieces, MaxLit)}

\* The text of a string literal: b and r prefixes, h hashes around a raw
\* string, and the body between the quotes.
Literal(b, r, h, body) ==
    (IF b THEN <<98>> ELSE <<>>) \o (IF r THEN <<114>> ELSE <<>>)
    \o [i \in 1..h |-> 35] \o <<34>> \o body \o <<34>> \o [i \in 1..h |-> 35]

\* Encoding::allow_interior_nuls: the default, no encoding overrides it.
allow_interior_nuls(E) == FALSE

\* Encoding::allow_arbitrary_bytes
allow_arbitrary_bytes(E) == E \in {"Unknown8", "Utf8ish"}

\* Unit::extend(units, ch): the units of ch in the unit type of E.
Unit_extend(E, units, ch) ==
    IF UnitBits(E) = 8 THEN units \o encode_utf8(ch)
    ELSE IF UnitBits(E) = 16 THEN units \o encode_utf16(ch)
    ELSE Append(units, ch)

\* The value of a hexadecimal digit, -1 for any other char.
HexDigit(ch) ==
    IF ch \in 48..57 THEN ch - 48
    ELSE IF ch \in 97..102 THEN ch - 97 + 10
    ELSE IF ch \in 65..70 THEN ch - 65 + 10
    ELSE -1

RECURSIVE UnicodeEscape(_, _, _)
\* The loop `for i in 0..7` of a \u{...} escape: the value of up to six
\* hexadecimal digits, closed by '}' after at least one of them.
UnicodeEscape(chars, i, v) ==
    IF i = 7 THEN [ok |-> TRUE, v |-> v, rest |-> chars]
    ELSE IF chars = <<>> THEN [ok |-> FALSE]
    ELSE IF HexDigit(chars[1]) >= 0 /\ i # 6
         THEN UnicodeEscape(Tail(chars), i + 1, v * 16 + HexDigit(chars[1]))
    ELSE IF chars[1] = 125 /\ i # 0 THEN [ok |-> TRUE, v |-> v, rest |-> Tail(chars)]
    ELSE [ok |-> FALSE]

\* One escape sequence, after its backslash: the units with those of the
\* escape, and the chars left, or a compile error.
Escape(E, b_prefix, units, chars) ==
    LET next == Tail(chars)
        ok(us, rest) == [ok |-> TRUE, units |-> us, rest |-> rest]
        err == [ok |-> FALSE]
    IN
    IF chars = <<>> THEN err
    ELSE IF chars[1] = 48
         THEN IF allow_interior_nuls(E) THEN ok(Append(units, NUL), next) ELSE err
    ELSE IF chars[1] = 116 THEN ok(Append(units, 9), next)
    ELSE IF chars[1] = 110 THEN ok(Append(units, 10), next)
    ELSE IF chars[1] = 114 THEN ok(Append(units, 13), next)
    ELSE IF chars[1] \in {92, 39, 34} THEN ok(Append(units, chars[1]), next)
    ELSE IF chars[1] = 120
         THEN IF Len(next) < 2 \/ HexDigit(next[1]) < 0 \/ HexDigit(next[2]) < 0 THEN err
              ELSE LET v == (HexDigit(next[1]) * 16 + HexDigit(next[2])) % 256 IN
                   IF ~allow_interior_nuls(E) /\ v = 0 THEN err
                   ELSE IF UnitBits(E) # 8 THEN err
                   ELSE IF ~(b_prefix /\ allow_arbitrary_bytes(E)) /\ v > 127 THEN err
                   ELSE ok(Append(units, v), Tail(Tail(next)))
    ELSE IF chars[1] = 117
         THEN IF b_prefix THEN err
              ELSE IF next = <<>> \/ next[1] # 123 THEN err
              ELSE LET u == UnicodeEscape(Tail(next), 0, 0) IN
                   IF ~u.ok THEN err
                   ELSE IF ~allow_interior_nuls(E) /\ u.v = 0 THEN err
                   ELSE IF ~IsScalar(u.v) THEN err
                   ELSE ok(Unit_extend(E, units, u.v), u.rest)
    ELSE err

RECURSIVE ParseChars(_, _, _, _, _)
\* The loop `while let Some(ch) = chars.next()` of parse_str.
ParseChars(E, b_prefix, r_prefix, units, chars) ==
    IF chars = <<>> THEN [ok |-> TRUE, units |-> units]
    ELSE IF chars[1] = 92 /\ ~r_prefix
         THEN LET e == Escape(E, b_prefix, units, Tail(chars)) IN
              IF e.ok THEN ParseChars(E, b_prefix, r_prefix, e.units, e.rest)
              ELSE [ok |-> FALSE, units |-> <<>>]
    ELSE IF chars[1] = NUL THEN [ok |-> FALSE, units |-> <<>>]
    ELSE ParseChars(E, b_prefix, r_prefix, Unit_extend(E, units, chars[1]), Tail(chars))

RECURSIVE StripHashes(_)
\* The loop `while let Some(l) = literal.strip_prefix("#")`: the literal without
\* its hashes, or <<>> when a starting hash has no ending one.
StripHashes(literal) ==
    IF literal # <<>> /\ literal[1] = 35
    THEN IF Len(literal) >= 2 /\ literal[Len(literal)] = 35
         THEN StripHashes(SubSeq(literal, 2, Len(literal) - 1))
         ELSE <<>>
    ELSE literal

\* The mutant of C22: no terminator is pushed.
parse_str_unterminated(E, literal) ==
    ParseChars(E, FALSE, FALSE, <<>>, SubSeq(literal, 2, Len(literal) - 1))

\* parse_str::<E>(literal): Ok with the units emitted, or a compile error.
parse_str(E, literal) ==
    LET starts(p) == Len(literal) >= Len(p) /\ SubSeq(literal, 1, Len(p)) = p
        br == starts(<<114, 98>>) \/ starts(<<98, 114>>)
        b_prefix == br \/ (~starts(<<114>>) /\ starts(<<98>>))
        r_prefix == br \/ starts(<<114>>)
        skip == IF br THEN 2 ELSE IF starts(<<114>>) \/ starts(<<98>>) THEN 1 ELSE 0
        quoted == StripHashes(SubSeq(literal, skip + 1, Len(literal)))
    IN
    IF Len(quoted) < 2 \/ quoted[1] # 34 \/ quoted[Len(quoted)] # 34
    THEN [ok |-> FALSE, units |-> <<>>]
    ELSE LET r == ParseChars(E, b_prefix, r_prefix, <<>>,
                             SubSeq(quoted, 2, Len(quoted) - 1)) IN
         IF r.ok THEN [ok |-> TRUE, units |-> Append(r.units, NUL)] ELSE r

\* cstr_impl::<E>(($crate) literal): one use of a literal macro on a string
\* literal, byte string or raw string.
ParseStr ==
    /\ conv.op = "none"
    /\ \E E \in TryIntoEncodings : \E b \in BOOLEAN : \E r \in BOOLEAN :
       \E h \in 0..(IF r THEN 1 ELSE 0) : \E body \in Bodies :
           LET literal == Literal(b, r, h, body)
               p == parse_str(E, literal) IN
           Convert([op |-> "parse_str", enc |-> E, b |-> b, r |-> r, body |-> body,
                    literal |-> literal, ok |-> p.ok, units |-> p.units])

SpecLit == InitConv /\ [][ParseStr]_vars

\* ------------------------------------------------------- claims: CStrBuf

HasNul(s) == \E i \in 1..Len(s) : s[i] = NUL

\* C1: try_set(data) either returns Err and leaves every unit as it was (exactly when
\* len(data) >= N), or returns Ok with data in units [0, len), NUL at index len and
\* every unit above index len unchanged.
C1_TrySetAllOrNothing ==
    last.op = "try_set" =>
        LET n == Len(last.data) IN
        IF n >= Len(last.pre)
        THEN last.ret = "Err" /\ buffer = last.pre
        ELSE /\ last.ret = "Ok"
             /\ Len(buffer) = Len(last.pre)
             /\ \A i \in 1..n : buffer[i] = last.data[i]
             /\ buffer[n + 1] = NUL
             /\ \A i \in (n + 2)..Len(buffer) : buffer[i] = last.pre[i]

\* C1 witness: a successful try_set of non-empty data that keeps a non-NUL unit above the terminator.
C1_Witness ==
    /\ last.op = "try_set" /\ last.ret = "Ok"
    /\ Len(last.data) >= 1
    /\ \E i \in (Len(last.data) + 2)..Len(buffer) : last.pre[i] # NUL /\ buffer[i] = last.pre[i]

\* C2: validate() directly after set_truncate(data) on a buffer of capacity >= 1 returns
\* Ok, whatever the buffer held before and whether set_truncate returned Ok or Err.
C2_SetTruncateThenValidate ==
    (last.op = "set_truncate" /\ Len(last.pre) >= 1) =>
        (last.ret \in {"Ok", "Err"} /\ validate(buffer))

\* C2 witness: set_truncate truncated its data on a buffer that held no NUL at all.
C2_Witness ==
    /\ last.op = "set_truncate" /\ last.ret = "Err"
    /\ Len(last.pre) >= 2 /\ ~HasNul(last.pre)
    /\ ~HasNul(last.data)

\* C3: set_truncate(data) on a buffer of capacity N >= 1 stores the first
\* n = min(N-1, len(data)) units of data at [0, n), NUL at index n, and returns Err
\* exactly when len(data) >= N, Ok otherwise.
C3_SetTruncateStores ==
    (last.op = "set_truncate" /\ Len(last.pre) >= 1) =>
        LET n == Min(Len(last.pre) - 1, Len(last.data)) IN
        /\ Len(buffer) = Len(last.pre)
        /\ \A i \in 1..n : buffer[i] = last.data[i]
        /\ buffer[n + 1] = NUL
        /\ last.ret = (IF Len(last.data) >= Len(last.pre) THEN "Err" ELSE "Ok")

\* C3 witness: data exactly as long as the buffer is cut to N-1 units and reported.
C3_Witness ==
    /\ last.op = "set_truncate" /\ last.ret = "Err"
    /\ Len(last.data) = Len(last.pre) /\ Len(last.pre) >= 3
    /\ last.data[Len(last.data)] # NUL
    /\ to_units(buffer) = SubSeq(last.data, 1, Len(last.pre) - 1)

\* C4: validate() and to_units_with_nul() fail exactly when no unit of the buffer is
\* NUL; otherwise to_units_with_nul() is the units up to and including the first NUL.
\* A buffer with no NUL is a state the buffer can be in, and to_units() is then all N units.
C4_NotTerminatedExactly ==
    LET r == to_units_with_nul(buffer) IN
    /\ validate(buffer) <=> HasNul(buffer)
    /\ r.ok <=> HasNul(buffer)
    /\ r.ok => /\ Len(r.units) >= 1 /\ Len(r.units) <= Len(buffer)
               /\ \A i \in 1..Len(r.units) : r.units[i] = buffer[i]
               /\ r.units[Len(r.units)] = NUL
               /\ \A i \in 1..(Len(r.units) - 1) : r.units[i] # NUL
    /\ ~HasNul(buffer) => to_units(buffer) = buffer

\* C4 witness: a buffer filled end to end with non-NUL units.
C4_Witness ==
    /\ last.op \in {"buffer_mut", "try_set_without_nul", "set_truncate_without_nul"}
    /\ Len(buffer) >= 2 /\ ~HasNul(buffer)
    /\ ~validate(buffer)

\* C5: nul_truncate() on a buffer of capacity N >= 1 sets unit N-1 to NUL and changes
\* no other unit; validate() then returns Ok and the returned view, which points at
\* the buffer's first unit, reads the units that precede the first NUL.
C5_NulTruncateFrame ==
    (last.op = "nul_truncate" /\ Len(last.pre) >= 1) =>
        LET N == Len(last.pre)
            len == strlen(buffer, 0)
            read == from_raw_parts(buffer, 0, len)
        IN  /\ last.ret = "View"
            /\ Len(buffer) = N
            /\ buffer[N] = NUL
            /\ \A i \in 1..(N - 1) : buffer[i] = last.pre[i]
            /\ validate(buffer)
            /\ len >= 0
            /\ \A i \in 1..len : read[i] = last.pre[i] /\ read[i] # NUL
            /\ buffer[len + 1] = NUL

\* C5 witness: nul_truncate repaired a buffer that held no NUL.
C5_Witness ==
    /\ last.op = "nul_truncate" /\ last.ret = "View"
    /\ Len(last.pre) >= 2 /\ ~HasNul(last.pre)
    /\ strlen(buffer, 0) = Len(buffer) - 1

\* ------------------------------------------------------- claims: views

\* C6: CStrPtr::from_units_with_nul and CStrNonNull::from_units_with_nul return
\* Ok exactly when the input is non-empty, its last unit is NUL, no earlier unit
\* is NUL and the whole input passes E::from_units (which only rejects a u32 that
\* is no char, under Utf32); in every other case, the empty input included, they
\* return Err, and they never panic. The view returned points at the first unit.
C6_FromUnitsWithNulOkExactly ==
    view.op = "from_units_with_nul" =>
        LET u          == view.input
            passes     == view.enc = "Utf32" => \A i \in 1..Len(u) : IsScalar(u[i])
            wellFormed == /\ u # <<>>
                          /\ u[Len(u)] = NUL
                          /\ \A i \in 1..(Len(u) - 1) : u[i] # NUL
                          /\ passes
        IN  /\ view.ret \in {"Ok", "Err"}
            /\ view.ret = "Ok" <=> wellFormed
            /\ view.ret = "Ok" => view.ptr = 1 /\ view.cells = u

C6_Witness ==
    /\ view.op = "from_units_with_nul"
    /\ view.kind = "CStrNonNull"
    /\ view.enc = "Utf32"
    /\ view.ret = "Ok"
    /\ Len(view.input) >= 2

\* C7: a null CStrPtr reads as the empty string: is_empty() is true, to_units()
\* is empty, to_units_with_nul() is [NUL] and to_string_lossy() is the empty text,
\* the same results as the reads of a non-null CStrPtr at a lone NUL; is_null()
\* alone differs.
C7_NullReadsAsEmpty ==
    (view.op # "none" /\ view.kind = "CStrPtr" /\ view.ret = "Ok"
        /\ view.ptr = 0 /\ view.read.done) =>
        LET lone == CStrPtr_reads(View("default", "CStrPtr", view.enc, <<>>, "Ok", EMPTY, 1))
        IN  /\ view.read.is_null /\ ~lone.is_null
            /\ view.read.is_empty
            /\ view.read.to_units = <<>>
            /\ view.read.to_units_with_nul = <<NUL>>
            /\ view.read.to_string_lossy = <<>>
            /\ view.read = [lone EXCEPT !.is_null = TRUE]

C7_Witness ==
    /\ view.op = "NULL"
    /\ view.enc = "Utf16ish"
    /\ view.ptr = 0
    /\ view.read.done

\* ---------------------------------------------------- claims: decoding

\* C8: every next_char call on a non-empty slice, under every encoding and
\* whether it returns Ok or Err, leaves a strictly shorter slice; so the calls
\* made plus the units left never exceed the length of the input, and a decoding
\* of n units is over within n calls.
C8_NextCharShortens ==
    dec.enc # "none" =>
        /\ (dec.ret # "none" /\ dec.prev_len > 0) => Len(dec.units) < dec.prev_len
        /\ dec.calls + Len(dec.units) <= Len(dec.input)
        /\ dec.units = <<>> => dec.calls <= Len(dec.input)

C8_Witness ==
    /\ dec.enc = "Utf16"
    /\ dec.ret = "Err"
    /\ dec.prev_len = 2
    /\ Len(dec.units) = 1
    /\ dec.calls = 2

\* C9: on a non-empty slice Utf8ish, Utf16ish and Utf32ish never return Err from
\* next_char: they return the char of the strict decoder of the same width when
\* it accepts the slice and U+FFFD when it rejects it. (Utf32 has chars for units;
\* it rejects a u32 that is no char.)
C9_LenientNeverErr ==
    (dec.enc \in {"Utf8ish", "Utf16ish", "Utf32ish"} /\ dec.ret # "none" /\ dec.prev_len > 0) =>
        LET strict == CASE dec.enc = "Utf8ish"  -> Utf8_next_char(dec.before)
                        [] dec.enc = "Utf16ish" -> Utf16_next_char(dec.before)
                        [] dec.enc = "Utf32ish" ->
                              IF from_units("Utf32", <<dec.before[1]>>).ok
                              THEN Utf32_next_char(dec.before)
                              ELSE Err(Tail(dec.before))
        IN  /\ dec.ret = "Ok"
            /\ dec.ch = IF strict.ok THEN strict.ch ELSE REPLACEMENT_CHARACTER

\* C10: under every encoding with a decoder, to_string_lossy(input) is the text
\* built by calling next_char until the input is empty, appending the char it
\* returns, or U+FFFD when it returns Err.
C10_LossyIsNextCharLoop ==
    (dec.enc # "none" /\ dec.lossy.done /\ dec.units = <<>>) => dec.lossy.text = dec.s

\* -------------------------------------------------- claims: conversions

\* C11: for every text, the units of its UTF-8, UTF-16 or UTF-32 encoding given
\* to to_string_lossy of Utf8, Utf16 or Utf32 come back as the text itself: no
\* char replaced, dropped or added.
C11_StrictRoundTrip ==
    conv.op = "to_string_lossy" => conv.out = conv.text

C11_Witness ==
    /\ conv.op = "to_string_lossy"
    /\ conv.enc = "Utf16"
    /\ conv.text = <<65536, 233, 1114111>>
    /\ Len(conv.units) = 5
    /\ conv.out = conv.text

\* ------------------------------------------------ claims: UTF-16, UTF-8

\* C12: when the slice starts with a high surrogate (0xD800..0xDBFF) followed by
\* a low surrogate (0xDC00..0xDFFF), Utf16::next_char removes exactly those two
\* units and returns the char ((high & 0x3FF) << 10) + (low & 0x3FF) + 0x10000.
C12_SurrogatePairValue ==
    (/\ dec.enc = "Utf16" /\ dec.ret # "none" /\ Len(dec.before) >= 2
     /\ 55296 <= dec.before[1] /\ dec.before[1] <= 56319
     /\ 56320 <= dec.before[2] /\ dec.before[2] <= 57343) =>
        /\ dec.units = Tail2(dec.before)
        /\ dec.ret = "Ok"
        /\ dec.ch = (dec.before[1] % 1024) * 1024 + (dec.before[2] % 1024) + 65536

\* C13: when the slice starts with a low surrogate (0xDC00..0xDFFF),
\* Utf16::next_char returns Err, whatever unit follows and when none does.
C13_LowSurrogateFirstErr ==
    (/\ dec.enc = "Utf16" /\ dec.ret # "none" /\ dec.prev_len > 0
     /\ 56320 <= dec.before[1] /\ dec.before[1] <= 57343) =>
        dec.ret = "Err"

\* C14: Utf8::next_char returns Ok(c) exactly when the lead declares a length N
\* in 1..4, at least N units are there, and those N units are the well-formed
\* UTF-8 encoding of the char c (so not overlong, no surrogate, not above
\* U+10FFFF); for every other non-empty slice it returns Err.
C14_Utf8OkExactlyWellFormed ==
    (dec.enc = "Utf8" /\ dec.ret # "none" /\ dec.prev_len > 0) =>
        LET b     == dec.before
            N     == DeclaredLen(b[1])
            chunk == SubSeq(b, 1, N)
            bits  == IF N = 1 THEN b[1]
                     ELSE IF N = 2 THEN (b[1] - 192) * 64 + (b[2] % 64)
                     ELSE IF N = 3 THEN (b[1] - 224) * 4096 + (b[2] % 64) * 64 + (b[3] % 64)
                     ELSE (b[1] - 240) * 262144 + (b[2] % 64) * 4096
                            + (b[3] % 64) * 64 + (b[4] % 64)
            wellFormed == /\ N \in 1..4
                          /\ Len(b) >= N
                          /\ IsScalar(bits)
                          /\ encode_utf8(bits) = chunk
        IN  /\ dec.ret = "Ok" <=> wellFormed
            /\ dec.ret = "Ok" => dec.ch = bits

C14_Witness ==
    /\ dec.enc = "Utf8"
    /\ dec.before = <<240, 160, 128, 128>>
    /\ dec.ret = "Ok"
    /\ dec.ch = 131072

\* C15: on a non-empty slice Utf8::next_char removes exactly 1 unit when the lead
\* is a continuation byte (0x80..0xBF) or a 5 or 6 unit lead (0xF8..0xFF);
\* otherwise, N being the length the lead declares, it removes every unit when
\* fewer than N are there and exactly N units when at least N are there, be the
\* result Ok or Err.
C15_Utf8UnitsRemoved ==
    (dec.enc = "Utf8" /\ dec.ret # "none" /\ dec.prev_len > 0) =>
        LET b       == dec.before
            lead    == b[1]
            N       == DeclaredLen(lead)
            removed == Len(b) - Len(dec.units)
        IN  /\ dec.units = SubSeq(b, removed + 1, Len(b))
            /\ removed = IF (128 <= lead /\ lead <= 191) \/ lead >= 248 THEN 1
                         ELSE IF Len(b) < N THEN Len(b)
                         ELSE N

C15_Witness ==
    /\ dec.enc = "Utf8"
    /\ dec.before = <<224, 65>>
    /\ dec.ret = "Err"
    /\ dec.units = <<>>

\* C16: Utf32's from_units over u32 units returns Ok(all the units) exactly when
\* every unit is a Unicode scalar value (not in 0xD800..0xDFFF, not above
\* 0x10FFFF); otherwise it returns Err((valid, rest)), valid the longest prefix of
\* scalar values, rest starting with the first unit that is none, and valid
\* followed by rest the input unchanged.
C16_Utf32FromUnitsSplit ==
    (conv.op = "from_units" /\ conv.enc = "Utf32") =>
        LET u         == conv.input
            scalar(v) == ~(55296 <= v /\ v <= 57343) /\ v <= 1114111
            valid     == conv.units
            rest      == conv.invalid
        IN  /\ conv.ok <=> \A i \in 1..Len(u) : scalar(u[i])
            /\ conv.ok => valid = u /\ rest = <<>>
            /\ ~conv.ok => /\ valid \o rest = u
                           /\ \A i \in 1..Len(valid) : scalar(valid[i])
                           /\ rest # <<>>
                           /\ ~scalar(rest[1])

C16_Witness ==
    /\ conv.op = "from_units"
    /\ conv.enc = "Utf32"
    /\ ~conv.ok
    /\ conv.units = <<57344>>
    /\ conv.invalid = <<57343, 1114112>>

C18_NoneIsNull ==
    /\ conv.op = "read_option" =>
            /\ (conv.raw = 0) <=> (conv.opt = None)
            /\ (conv.raw # 0) => (conv.opt = Some(conv.raw))
    /\ conv.op = "from_option" =>
            /\ ~conv.opt.some => (conv.is_null /\ conv.ptr = 0)
            /\ conv.opt.some => (~conv.is_null /\ conv.ptr = conv.opt.ptr)

C18_Witness ==
    /\ conv.op = "from_option"
    /\ conv.opt = None
    /\ conv.is_null

C18_WitnessSome ==
    /\ conv.op = "read_option"
    /\ conv.raw = 2
    /\ conv.opt = Some(2)

\* C19: converting text into an owned C string (try_into of &str, &String and
\* String) returns Err exactly when the units of the text contain a NUL; on Ok the
\* owned units are the units of the text followed by one NUL, so they hold
\* exactly one NUL, which is their last unit.
C19_TryIntoErrExactlyOnNul ==
    conv.op = "try_into" =>
        /\ ~conv.ok <=> HasNul(conv.units)
        /\ conv.ok =>
            /\ conv.owned = conv.units \o <<NUL>>
            /\ {i \in 1..Len(conv.owned) : conv.owned[i] = NUL} = {Len(conv.owned)}

C19_Witness ==
    /\ conv.op = "try_into"
    /\ conv.type = "String"
    /\ conv.enc = "Utf8"
    /\ conv.text = <<65, 8364>>
    /\ conv.ok
    /\ conv.owned = <<65, 226, 130, 172, NUL>>

C19_WitnessErr ==
    /\ conv.op = "try_into"
    /\ conv.enc = "Utf16ish"
    /\ conv.text = <<65, NUL, 65536>>
    /\ ~conv.ok

\* C20: set_truncate and nul_truncate panic exactly when the capacity of the
\* buffer is 0; try_set never panics, and on a buffer of capacity 0 it returns
\* Err and leaves the buffer as it was; for capacity >= 1 each of the three
\* returns normally for every buffer state and every data.
C20_PanicExactlyOnEmpty ==
    /\ last.op \in {"set_truncate", "nul_truncate"} =>
            (last.ret = "Panic" <=> Len(last.pre) = 0)
    /\ last.op = "try_set" =>
            /\ last.ret \in {"Ok", "Err"}
            /\ Len(last.pre) = 0 => (last.ret = "Err" /\ buffer = last.pre)
    /\ (last.op \in {"set_truncate", "try_set", "nul_truncate"} /\ Len(last.pre) >= 1) =>
            last.ret \in {"Ok", "Err", "View"}

\* C20 witness: try_set on a buffer of capacity 0.
C20_Witness ==
    /\ last.op = "try_set"
    /\ Len(last.pre) = 0
    /\ last.ret = "Err"

\* C20 witness: set_truncate on a buffer of capacity 0.
C20_WitnessPanic ==
    /\ last.op = "set_truncate"
    /\ Len(last.pre) = 0
    /\ last.ret = "Panic"

\* C20 as stated: set_truncate, try_set and nul_truncate all panic exactly when
\* the capacity of the buffer is 0.
C20_AllThreePanicOnEmpty ==
    last.op \in {"set_truncate", "try_set", "nul_truncate"} =>
        (last.ret = "Panic" <=> Len(last.pre) = 0)

\* C21: a default CStrBuf has every unit equal to NUL for every unit width and
\* every capacity, and for capacity >= 1 it reads as the empty string:
\* is_empty() is true, to_units() is empty and validate() returns Ok.
C21_DefaultIsEmptyString ==
    conv.op = "default" =>
        /\ Len(conv.buffer) = conv.cap
        /\ \A i \in 1..conv.cap : conv.buffer[i] = NUL
        /\ conv.cap >= 1 => (conv.is_empty /\ conv.units = <<>> /\ conv.valid)

C21_Witness ==
    /\ conv.op = "default"
    /\ conv.bits = 32
    /\ conv.cap = 2
    /\ conv.buffer = <<NUL, NUL>>
    /\ conv.is_empty

\* C22: for every literal the literal macros accept, the unit array emitted is
\* non-empty, its last unit is NUL and no other unit is NUL; a literal with a NUL
\* as a raw char or as an escape (\0, \x00, \u{0}) is a compile error.
C22_LiteralUnitsOneNul ==
    conv.op = "parse_str" =>
        /\ conv.ok =>
            /\ Len(conv.units) >= 1
            /\ {i \in 1..Len(conv.units) : conv.units[i] = NUL} = {Len(conv.units)}
        /\ (\E i \in 1..Len(conv.body) : conv.body[i] = NUL) => ~conv.ok
        /\ (~conv.r /\ \E i \in 1..Len(conv.body) : \E esc \in {<<92, 48>>, <<92, 120, 48, 48>>, <<92, 117, 123, 48, 125>>} :
                /\ (i = 1 \/ conv.body[i - 1] # 92)
                /\ i + Len(esc) - 1 <= Len(conv.body)
                /\ SubSeq(conv.body, i, i + Len(esc) - 1) = esc) => ~conv.ok

C22_Witness ==
    /\ conv.op = "parse_str"
    /\ conv.enc = "Utf8ish"
    /\ conv.b /\ ~conv.r
    /\ conv.body = <<92, 120, 70, 70>>
    /\ conv.ok
    /\ conv.units = <<255, NUL>>

C22_WitnessRejected ==
    /\ conv.op = "parse_str"
    /\ conv.enc = "Utf16"
    /\ conv.body = <<92, 117, 123, 48, 125>>
    /\ ~conv.b /\ ~conv.r
    /\ ~conv.ok

\* C23: try_set_without_nul(data) on a buffer of capacity N returns Err and
\* leaves the buffer as it was exactly when len(data) > N; when len(data) = N it
\* fills all N units with data and writes no terminator, so validate() then fails
\* unless data itself holds a NUL; when len(data) < N it writes data followed by
\* NUL like try_set.
C23_TrySetWithoutNul ==
    last.op = "try_set_without_nul" =>
        LET n == Len(last.data)
            N == Len(last.pre)
        IN  /\ last.ret = "Err" <=> n > N
            /\ last.ret \in {"Ok", "Err"}
            /\ n > N => buffer = last.pre
            /\ n = N => (buffer = last.data /\ (validate(buffer) <=> HasNul(last.data)))
            /\ n < N => (buffer = try_set(last.pre, last.data).buf
                         /\ try_set(last.pre, last.data).ret = "Ok")

\* C23 witness: data as long as the buffer, without a NUL, over a terminated buffer.
C23_Witness ==
    /\ last.op = "try_set_without_nul" /\ last.ret = "Ok"
    /\ Len(last.data) = Len(last.pre) /\ Len(last.pre) >= 2
    /\ HasNul(last.pre) /\ ~HasNul(last.data)
    /\ ~validate(buffer)

\* C23 as stated: after data of exactly N units validate() fails.
C23_FullDataNeverValidates ==
    (last.op = "try_set_without_nul" /\ Len(last.data) = Len(last.pre)) =>
        (last.ret = "Ok" /\ buffer = last.data /\ ~validate(buffer))

\* C24: CStrPtr<E> and Option<CStrNonNull<E>> have the size and alignment of a
\* raw pointer to a unit of E, CStrNonNull<E> those of a non-null pointer, and
\* CStrBuf<[U; N]> those of the array [U; N], for units of 8, 16 and 32 bits
\* and every N.
C24_AbiLayout ==
    conv.op = "abi_layout" =>
        /\ conv.left_layout = conv.right_layout
        /\ conv.left = "CStrBuf" =>
             conv.left_layout = [size |-> conv.n * (conv.bits \div 8), align |-> conv.bits \div 8]
        /\ conv.left # "CStrBuf" =>
             conv.left_layout = [size |-> conv.target \div 8, align |-> conv.target \div 8]

C24_Witness ==
    /\ conv.op = "abi_layout"
    /\ conv.left = "Option<CStrNonNull>"
    /\ conv.target = 64
    /\ conv.bits = 16
    /\ conv.left_layout = [size |-> 8, align |-> 8]

\* C25: from a default buffer of capacity >= 1, after any sequence of the safe
\* mutating operations set_truncate, try_set and nul_truncate, with any data and
\* whatever each call returns, the buffer holds a NUL: validate() returns Ok in
\* every reachable state.
C25_SafeOpsKeepNul ==
    Len(buffer) >= 1 =>
        /\ validate(buffer)
        /\ HasNul(buffer)
        /\ last.ret # "Panic"

\* C25 witness: nul_truncate after a set operation has stored non-NUL units up to
\* the last but one.
C25_Witness ==
    /\ last.op = "nul_truncate"
    /\ Len(buffer) >= 3
    /\ \A i \in 1..(Len(buffer) - 1) : buffer[i] # NUL
    /\ validate(buffer)

\* C26: after try_set(data) returns Ok, to_units_with_nul() is Ok with the units
\* of data up to its first NUL, or all of data, followed by NUL, and to_units()
\* is the same without the NUL; they are data followed by NUL, and data, exactly
\* when data holds no NUL, whatever the buffer held before.
C26_TrySetReadsBack ==
    (last.op = "try_set" /\ last.ret = "Ok") =>
        LET r == to_units_with_nul(buffer) IN
        /\ r.ok
        /\ r.units = to_units(last.data) \o <<NUL>>
        /\ to_units(buffer) = to_units(last.data)
        /\ ~HasNul(last.data) <=> to_units(buffer) = last.data
        /\ ~HasNul(last.data) <=> r.units = last.data \o <<NUL>>

\* C26 witness: data without a NUL, shorter than what the buffer held before.
C26_Witness ==
    /\ last.op = "try_set" /\ last.ret = "Ok"
    /\ Len(last.data) = 1 /\ ~HasNul(last.data)
    /\ Len(to_units(last.pre)) >= 2
    /\ to_units(buffer) = last.data

\* C26 as stated: after try_set(data) returns Ok, to_units() is data and
\* to_units_with_nul() is data followed by NUL, for every data that fits.
C26_TrySetReadsBackAnyData ==
    (last.op = "try_set" /\ last.ret = "Ok") =>
        /\ to_units(buffer) = last.data
        /\ to_units_with_nul(buffer) = [ok |-> TRUE, units |-> last.data \o <<NUL>>]

\* C27: when the first unit is a high surrogate and the next unit is not a low
\* surrogate, Utf16::next_char returns an error and removes only the high
\* surrogate, so the follower is the first unit of what is left and the next call
\* decodes it; when the high surrogate is the last unit, it is removed and an
\* error is returned.
C27_UnpairedHighSurrogate ==
    LET high(u) == BitAnd(u, SURROGATE_SIGNAL_MASK) = SURROGATE_HIGH
        low(u)  == BitAnd(u, SURROGATE_SIGNAL_MASK) = SURROGATE_LOW
    IN
    /\ (dec.enc = "Utf16" /\ dec.ret # "none" /\ dec.before # <<>> /\ high(dec.before[1])
        /\ (Len(dec.before) = 1 \/ ~low(dec.before[2]))) =>
            /\ dec.ret = "Err"
            /\ dec.units = Tail(dec.before)
            /\ Len(dec.before) >= 2 => dec.units[1] = dec.before[2]
    /\ (dec.enc = "Utf16" /\ dec.calls = 2 /\ dec.before = Tail(dec.input)
        /\ Len(dec.input) >= 2 /\ high(dec.input[1])
        /\ ~high(dec.input[2]) /\ ~low(dec.input[2])) =>
            /\ dec.ret = "Ok"
            /\ dec.ch = dec.input[2]
            /\ dec.s = <<REPLACEMENT_CHARACTER, dec.input[2]>>
            /\ dec.units = Tail(Tail(dec.input))

\* C27 witness: the follower of an unpaired high surrogate decoded by the second call.
C27_Witness ==
    /\ dec.enc = "Utf16"
    /\ dec.input = <<55296, 65, 56320>>
    /\ dec.calls = 2
    /\ dec.ret = "Ok" /\ dec.ch = 65
    /\ dec.units = <<56320>>

\* C27 witness: a high surrogate as the last unit.
C27_WitnessLast ==
    /\ dec.enc = "Utf16"
    /\ dec.before = <<56319>>
    /\ dec.ret = "Err"
    /\ dec.units = <<>>

\* C28: next_char on an empty input returns an error and yields no char for
\* every encoding, Utf8ish, Utf16ish and Utf32ish included; no decoder returns a
\* char, replacement or other, while removing zero units.
C28_EmptyInputIsErr ==
    dec.ret # "none" =>
        /\ dec.before = <<>> => (dec.ret = "Err" /\ dec.units = <<>>)
        /\ dec.ret = "Ok" => Len(dec.units) < Len(dec.before)

\* C29: for every CStrBuf of every capacity and every content, is_empty() is true
\* exactly when to_units() is the empty slice.
C29_IsEmptyIffNoUnits ==
    is_empty(buffer) <=> to_units(buffer) = <<>>

\* C30: whenever from_units_with_nul(units) returns Ok(view), for CStrPtr and
\* for CStrNonNull, the view reads back what was given: to_units_with_nul() is
\* units, to_units() is units without its final NUL, and as_ptr() is the address
\* of the first unit of units.
C30_FromUnitsReadsBack ==
    (view.op = "from_units_with_nul" /\ view.ret = "Ok") =>
        /\ view.cells = view.input
        /\ (IF view.kind = "CStrPtr" THEN CStrPtr_as_ptr(view) ELSE CStrNonNull_as_ptr(view)) = 1
        /\ view.read.done =>
            /\ view.read.to_units_with_nul = view.input
            /\ view.read.to_units = SubSeq(view.input, 1, Len(view.input) - 1)
            /\ ~view.read.is_null

C30_Witness ==
    /\ view.op = "from_units_with_nul"
    /\ view.kind = "CStrNonNull"
    /\ view.ret = "Ok"
    /\ view.read.done
    /\ view.input = <<65, 56320, NUL>>
    /\ view.read.to_units = <<65, 56320>>

C30_WitnessPtr ==
    /\ view.op = "from_units_with_nul"
    /\ view.kind = "CStrPtr"
    /\ view.ret = "Ok"
    /\ view.read.done
    /\ view.read.to_units_with_nul = <<255, NUL>>

====
